---- MODULE Spec2Model ----
(***************************************************************************)
(* Appointment scheduling core of AppointmentSystem: the mapper hooks of   *)
(* src/main/models.py (validate_appointment, validate_service_package,     *)
(* update_client_metrics, ServicePackage.use_session) and the GraphQL      *)
(* mutations of src/main/graphql_schema.py that persist through them.      *)
(*                                                                         *)
(* Time is counted in minutes from a Monday 00:00 UTC.                     *)
(***************************************************************************)
EXTENDS Integers, Sequences, FiniteSets, TLC

VARIABLES settings, now, appts, nextId, last, tx, packages, clients, history,
          cache, issued, revoked

vars == <<settings, now, appts, nextId, last, tx, packages, clients, history,
          cache, issued, revoked>>

---------------------------------------------------------------------------
(* Bounds of the model *)

\* number of appointment rows ever inserted
MaxAppts == 2
\* number of concurrent transactions
NumTx == 2
\* number of ServicePackage rows ever inserted
MaxPackages == 2
\* number of ServiceHistory rows ever inserted
MaxHistory == 3
\* number of tokens handed out
MaxTokens == 2
\* requests counted per client in one window
MaxRequests == 62

---------------------------------------------------------------------------
(* Enumerations and tables *)

\* schema.py AppointmentStatus
AppointmentStatus == {"SCHEDULED", "CONFIRMED", "CANCELLED", "COMPLETED", "DECLINED"}

\* the service types the model draws from (models.py ServiceType)
ServiceTypes == {"HAIRCUT", "PEDICURE", "MASSAGE"}

\* ServiceType.get_duration_minutes
get_duration_minutes(service) ==
    CASE service = "HAIRCUT" -> 30
      [] service = "PEDICURE" -> 60
      [] service = "MASSAGE" -> 60
      [] OTHER -> 30

\* ServiceType.get_base_cost
get_base_cost(service) ==
    CASE service = "HAIRCUT" -> 30
      [] service = "PEDICURE" -> 35
      [] service = "MASSAGE" -> 75
      [] OTHER -> 40

\* ServiceType.get_loyalty_points
get_loyalty_points(service) ==
    CASE service = "HAIRCUT" -> 10
      [] service = "PEDICURE" -> 12
      [] service = "MASSAGE" -> 20
      [] OTHER -> 10

Users == {1, 2}
Txs == 1..NumTx

\* target.id of an object that has no primary key yet (the '' of the query)
NoId == 0
\* an optional argument that was not given, a NULL column
Unset == -1

MinutesPerHour == 60
MinutesPerDay == 1440

\* datetime.hour
Hour(t) == (t \div MinutesPerHour) % 24
\* datetime.weekday(): Monday = 0 ... Sunday = 6
Weekday(t) == (t \div MinutesPerDay) % 7

---------------------------------------------------------------------------
(* validate_appointment: the before_insert / before_update hook *)

\* StaticRules raising when start_time is exactly two hours ahead
StaticRules_noticeInclusive(target, clock) ==
    LET end_time == target.start + target.dur
    IN  IF Hour(target.start) < 9 \/ Hour(end_time) >= 19 THEN "hours"
        ELSE IF Weekday(target.start) >= 5 THEN "weekend"
        ELSE IF target.start <= clock + 2 * MinutesPerHour THEN "notice"
        ELSE IF target.dur < 15 THEN "duration_min"
        ELSE IF target.dur > 480 THEN "duration_max"
        ELSE IF target.dur < get_duration_minutes(target.service) THEN "duration_service"
        ELSE "ok"

\* StaticRules raising when duration_minutes is exactly max_duration
StaticRules_maxExclusive(target, clock) ==
    LET end_time == target.start + target.dur
    IN  IF Hour(target.start) < 9 \/ Hour(end_time) >= 19 THEN "hours"
        ELSE IF Weekday(target.start) >= 5 THEN "weekend"
        ELSE IF target.start < clock + 2 * MinutesPerHour THEN "notice"
        ELSE IF target.dur < 15 THEN "duration_min"
        ELSE IF target.dur >= 480 THEN "duration_max"
        ELSE IF target.dur < get_duration_minutes(target.service) THEN "duration_service"
        ELSE "ok"

\* the static rules, in the order of the code; "ok" when none raises
StaticRules(target, clock) ==
    LET start_hour == Hour(target.start)
        end_time   == target.start + target.dur
        end_hour   == Hour(end_time)
        min_notice == 2 * MinutesPerHour
        min_duration == 15
        max_duration == 480
        default_duration == get_duration_minutes(target.service)
    IN  IF start_hour < 9 \/ end_hour >= 19 THEN "hours"
        ELSE IF Weekday(target.start) >= 5 THEN "weekend"
        ELSE IF target.start < clock + min_notice THEN "notice"
        ELSE IF target.dur < min_duration THEN "duration_min"
        ELSE IF target.dur > max_duration THEN "duration_max"
        ELSE IF target.dur < default_duration THEN "duration_service"
        ELSE "ok"

\* OverlapWhere comparing closed intervals
OverlapWhere_closed(row_id, row, id, start_time, end_time) ==
    /\ row_id # id
    /\ row.status # "CANCELLED"
    /\ start_time <= row.end
    /\ end_time >= row.start

\* OverlapWhere selecting only the rows that are still SCHEDULED
OverlapWhere_scheduledOnly(row_id, row, id, start_time, end_time) ==
    /\ row_id # id
    /\ row.status = "SCHEDULED"
    /\ start_time < row.end
    /\ end_time > row.start

\* the WHERE clause of both overlap queries, for one row of the table
OverlapWhere(row_id, row, id, start_time, end_time) ==
    /\ row_id # id
    /\ row.status # "CANCELLED"
    /\ start_time < row.end
    /\ end_time > row.start

\* Overlapping without the id != :id clause
Overlapping_noExclusion(store, id, start_time, end_time) ==
    {i \in DOMAIN store : OverlapWhere(i, store[i], NoId, start_time, end_time)}

\* ids of the rows the overlap queries select in the table store
Overlapping(store, id, start_time, end_time) ==
    {i \in DOMAIN store : OverlapWhere(i, store[i], id, start_time, end_time)}

\* WithEndTime that leaves an end_time already set as it is
WithEndTime_insertOnly(target) ==
    IF target.end # Unset THEN target ELSE [target EXCEPT !.end = target.start + target.dur]

\* target with end_time calculated (target.end_time = end_time)
WithEndTime(target) == [target EXCEPT !.end = target.start + target.dur]

\* The outcomes of validate_appointment(target) against store: a record
\* [result, blocking, target]. The second query has LIMIT 1 and no ORDER BY,
\* so it may return the start_time of any selected row.
ValidateOutcomes(store, id, target, clock) ==
    LET r == StaticRules(target, clock)
        t == WithEndTime(target)
        hits == Overlapping(store, id, t.start, t.end)
    IN  IF r # "ok"
        THEN {[result |-> r, blocking |-> Unset, target |-> target]}
        ELSE IF hits # {}
        THEN {[result |-> "conflict", blocking |-> store[i].start, target |-> t] : i \in hits}
        ELSE {[result |-> "ok", blocking |-> Unset, target |-> t]}

---------------------------------------------------------------------------
(* State *)

\* the last request and how it ended: result is "ok" or the rule that raised,
\* blocking the start_time named by the conflict error, prev the
\* <<start_time, duration_minutes, status>> the row had when it was loaded
\* and cand the <<start_time, duration_minutes, service_type, status>> validated
NoOp == [op |-> "none", id |-> NoId, result |-> "ok", blocking |-> Unset,
         prev |-> <<>>, cand |-> <<>>]

Idle == [pc |-> "idle"]

ApptInit ==
    /\ appts = <<>>
    /\ nextId = 1
    /\ last = NoOp
    /\ tx = [t \in Txs |-> Idle]

PkgInit ==
    /\ packages = <<>>

LoyaltyInit ==
    /\ clients = [c \in Users |-> [loyalty_points |-> 0, total_spent |-> 0, visit_count |-> 0]]
    /\ history = <<>>

\* auth.py: the RedisCache of the module starts empty (_local_cache = {},
\* REDIS_ENABLED is False), no token has been handed out or revoked
AuthInit ==
    /\ cache = <<>>
    /\ issued = {}
    /\ revoked = {}

\* config.py Settings as declared: weekend appointments are not allowed
DefaultSettings == [ALLOW_WEEKEND_APPOINTMENTS |-> FALSE]

\* Tuesday 08:00
StartOfDay == MinutesPerDay + 8 * MinutesPerHour

Init ==
    /\ settings = DefaultSettings
    /\ now = StartOfDay
    /\ ApptInit
    /\ PkgInit
    /\ LoyaltyInit
    /\ AuthInit

---------------------------------------------------------------------------
(* Inputs the requests are drawn from *)

Tue == MinutesPerDay
\* Tue 10:00 and Tue 10:30: two hours and more after StartOfDay
T1000 == Tue + 10 * MinutesPerHour
T1030 == T1000 + 30
\* Mon 10:00 (past), Tue 09:00 (one hour ahead), Tue 18:30 (ends 19:00), Sat 10:00
PastStart == 10 * MinutesPerHour
SoonStart == Tue + 9 * MinutesPerHour
LateStart == Tue + 18 * MinutesPerHour + 30
SaturdayStart == 5 * MinutesPerDay + 10 * MinutesPerHour

\* <<start_time, duration_minutes, service_type>> of the booking requests
Candidates ==
    {<<T1000, 30, "HAIRCUT">>, <<T1000, 60, "HAIRCUT">>, <<T1030, 30, "HAIRCUT">>,
     <<T1030, 60, "HAIRCUT">>,
     <<PastStart, 30, "HAIRCUT">>, <<SoonStart, 30, "HAIRCUT">>,
     <<LateStart, 30, "HAIRCUT">>, <<SaturdayStart, 30, "HAIRCUT">>,
     <<T1000, 10, "HAIRCUT">>, <<T1000, 481, "HAIRCUT">>, <<T1000, 30, "PEDICURE">>}
\* <<start_time, duration_minutes, status>> of the update requests
Changes ==
    {<<Unset, Unset, "None">>, <<T1000, Unset, "None">>, <<T1030, Unset, "None">>,
     <<Unset, 30, "None">>, <<Unset, 60, "None">>, <<T1030, 30, "None">>,
     <<PastStart, Unset, "None">>, <<Unset, 10, "None">>,
     <<T1030, Unset, "CANCELLED">>}
    \cup {<<Unset, Unset, st>> : st \in AppointmentStatus}
\* the users that book; every user sends update, status and delete requests
Creators == {1}
AttendeeSets == {{}}
\* the update requests of user u: a user that owns no appointment sends one
ChangesOf(u) == IF u \in Creators THEN Changes ELSE {<<T1030, Unset, "CANCELLED">>}
\* the values datetime.now() takes: Tue 08:00, Tue 09:00, Tue 11:00
ClockValues == {StartOfDay, StartOfDay + MinutesPerHour, StartOfDay + 3 * MinutesPerHour}

---------------------------------------------------------------------------
(* Requests, each a whole handler: load, assign, commit (flush runs the    *)
(* mapper hook, then the INSERT / UPDATE), rollback when the hook raises   *)

Outcome(op, id, o, prev) ==
    [op |-> op, id |-> id, result |-> o.result, blocking |-> o.blocking, prev |-> prev,
     cand |-> <<o.target.start, o.target.dur, o.target.service, o.target.status>>]

Refused(op, id, why) ==
    [op |-> op, id |-> id, result |-> why, blocking |-> Unset, prev |-> <<>>, cand |-> <<>>]

\* NewAppointment with CONFIRMED as the status of a new row
NewAppointment_confirmed(user, start_time, duration_minutes, service_type, attendees) ==
    [start |-> start_time, dur |-> duration_minutes, end |-> Unset,
     status |-> "CONFIRMED", service |-> service_type,
     creator |-> user, attendees |-> attendees]

\* Appointment(...) as the create handlers build it: no end_time yet, status
\* the column default (SCHEDULED), which mutations.py also passes explicitly
NewAppointment(user, start_time, duration_minutes, service_type, attendees) ==
    [start |-> start_time, dur |-> duration_minutes, end |-> Unset,
     status |-> "SCHEDULED", service |-> service_type,
     creator |-> user, attendees |-> attendees]

\* Mutation.create_appointment: session.add(Appointment(...)); commit
CreateAppointment(user, start_time, duration_minutes, service_type, attendees) ==
    LET target == NewAppointment(user, start_time, duration_minutes, service_type, attendees)
    IN  \E o \in ValidateOutcomes(appts, NoId, target, now) :
            /\ o.result = "ok" => nextId <= MaxAppts
            /\ IF o.result = "ok"
               THEN /\ appts' = appts @@ (nextId :> o.target)
                    /\ nextId' = nextId + 1
                    /\ last' = Outcome("create", nextId, o, <<>>)
               ELSE /\ UNCHANGED <<appts, nextId>>
                    /\ last' = Outcome("create", NoId, o, <<>>)
            /\ UNCHANGED <<cache, issued, revoked, settings, now, tx, packages, clients, history>>

\* FlushUpdate that emits the UPDATE whatever the hook answered
FlushUpdate_writeAnyway(op, id, target) ==
    \E o \in ValidateOutcomes(appts, id, target, now) :
        /\ appts' = [appts EXCEPT ![id] = WithEndTime(target)]
        /\ last' = Outcome(op, id, o, <<appts[id].start, appts[id].dur, appts[id].status>>)
        /\ UNCHANGED <<cache, issued, revoked, settings, now, nextId, tx, packages, clients, history>>

\* FlushUpdate that stores a status-only change without running the hook
FlushUpdate_statusUnchecked(op, id, target) ==
    \E o \in (IF op = "status"
               THEN {[result |-> "ok", blocking |-> Unset, target |-> target]}
               ELSE ValidateOutcomes(appts, id, target, now)) :
        /\ appts' = IF o.result = "ok" THEN [appts EXCEPT ![id] = o.target] ELSE appts
        /\ last' = Outcome(op, id, o, <<appts[id].start, appts[id].dur, appts[id].status>>)
        /\ UNCHANGED <<cache, issued, revoked, settings, now, nextId, tx, packages, clients, history>>

\* the flush of a loaded appointment whose attributes were assigned
FlushUpdate(op, id, target) ==
    \E o \in ValidateOutcomes(appts, id, target, now) :
        /\ appts' = IF o.result = "ok" THEN [appts EXCEPT ![id] = o.target] ELSE appts
        /\ last' = Outcome(op, id, o, <<appts[id].start, appts[id].dur, appts[id].status>>)
        /\ UNCHANGED <<cache, issued, revoked, settings, now, nextId, tx, packages, clients, history>>

\* Mutation.update_appointment; an argument that is None is Unset / "None"
UpdateAppointment(user, id, start_time, duration_minutes, status) ==
    IF id \notin DOMAIN appts \/ appts[id].creator # user
    THEN /\ last' = Refused("update", id, "not_found")
         /\ UNCHANGED <<cache, issued, revoked, settings, now, appts, nextId, tx, packages, clients, history>>
    ELSE LET a == appts[id]
             target == [a EXCEPT
                 !.start  = IF start_time # Unset THEN start_time ELSE @,
                 !.dur    = IF duration_minutes # Unset THEN duration_minutes ELSE @,
                 !.status = IF status # "None" THEN status ELSE @]
         IN  FlushUpdate("update", id, target)

\* update_appointment_status without the test that only the creator cancels
UpdateAppointmentStatus_anyoneCancels(user, id, status) ==
    IF id \notin DOMAIN appts
       \/ (appts[id].creator # user /\ user \notin appts[id].attendees)
    THEN /\ last' = Refused("status", id, "not_found")
         /\ UNCHANGED <<cache, issued, revoked, settings, now, appts, nextId, tx, packages, clients, history>>
    ELSE IF status = "DECLINED" /\ user \notin appts[id].attendees
    THEN /\ last' = Refused("status", id, "forbidden")
         /\ UNCHANGED <<cache, issued, revoked, settings, now, appts, nextId, tx, packages, clients, history>>
    ELSE FlushUpdate("status", id, [appts[id] EXCEPT !.status = status])

\* update_appointment_status that gives every package a session back each
\* time a CANCELLED request is stored
UpdateAppointmentStatus_restoresAlways(user, id, status) ==
    IF id \notin DOMAIN appts
       \/ (appts[id].creator # user /\ user \notin appts[id].attendees)
    THEN /\ last' = Refused("status", id, "not_found")
         /\ UNCHANGED <<cache, issued, revoked, settings, now, appts, nextId, tx, packages, clients, history>>
    ELSE IF \/ (status = "CANCELLED" /\ appts[id].creator # user)
            \/ (status = "DECLINED" /\ user \notin appts[id].attendees)
    THEN /\ last' = Refused("status", id, "forbidden")
         /\ UNCHANGED <<cache, issued, revoked, settings, now, appts, nextId, tx, packages, clients, history>>
    ELSE \E o \in ValidateOutcomes(appts, id, [appts[id] EXCEPT !.status = status], now) :
        /\ appts' = IF o.result = "ok" THEN [appts EXCEPT ![id] = o.target] ELSE appts
        /\ last' = Outcome("status", id, o, <<appts[id].start, appts[id].dur, appts[id].status>>)
        /\ packages' = IF o.result = "ok" /\ status = "CANCELLED"
                       THEN [q \in DOMAIN packages |->
                               [packages[q] EXCEPT !.sessions_remaining = @ + 1]]
                       ELSE packages
        /\ UNCHANGED <<cache, issued, revoked, settings, now, nextId, tx, clients, history>>

\* Mutation.update_appointment_status
UpdateAppointmentStatus(user, id, status) ==
    IF id \notin DOMAIN appts
       \/ (appts[id].creator # user /\ user \notin appts[id].attendees)
    THEN /\ last' = Refused("status", id, "not_found")
         /\ UNCHANGED <<cache, issued, revoked, settings, now, appts, nextId, tx, packages, clients, history>>
    ELSE IF \/ (status = "CANCELLED" /\ appts[id].creator # user)
            \/ (status = "DECLINED" /\ user \notin appts[id].attendees)
    THEN /\ last' = Refused("status", id, "forbidden")
         /\ UNCHANGED <<cache, issued, revoked, settings, now, appts, nextId, tx, packages, clients, history>>
    ELSE FlushUpdate("status", id, [appts[id] EXCEPT !.status = status])

\* Mutation.delete_appointment
DeleteAppointment(user, id) ==
    IF id \notin DOMAIN appts \/ appts[id].creator # user
    THEN /\ last' = [Refused("delete", id, "not_found") EXCEPT !.cand = <<user>>]
         /\ UNCHANGED <<cache, issued, revoked, settings, now, appts, nextId, tx, packages, clients, history>>
    ELSE /\ appts' = [i \in DOMAIN appts \ {id} |-> appts[i]]
         /\ last' = [Refused("delete", id, "ok") EXCEPT !.cand = <<user>>]
         /\ UNCHANGED <<cache, issued, revoked, settings, now, nextId, tx, packages, clients, history>>

\* time passes between requests
Tick ==
    /\ \E c \in ClockValues : c > now /\ now' = c
    /\ UNCHANGED <<cache, issued, revoked, settings, appts, nextId, last, tx, packages, clients, history>>

ApptIds == 1..MaxAppts

Next ==
    \/ \E u \in Creators, c \in Candidates, att \in AttendeeSets :
          CreateAppointment(u, c[1], c[2], c[3], att)
    \/ \E u \in Users, i \in ApptIds : \E c \in ChangesOf(u) :
          UpdateAppointment(u, i, c[1], c[2], c[3])
    \/ \E u \in Users, i \in ApptIds, st \in AppointmentStatus :
          UpdateAppointmentStatus(u, i, st)
    \/ \E u \in Users, i \in ApptIds : DeleteAppointment(u, i)

Spec == Init /\ [][Next]_vars

\* the same requests with time passing between them
TimedNext == Next \/ Tick

TimedSpec == Init /\ [][TimedNext]_vars

---------------------------------------------------------------------------
(* Concurrent requests. Each request runs in its own session and           *)
(* transaction; the statements of different transactions interleave and a  *)
(* query sees the rows committed so far (no isolation level, lock or       *)
(* exclusion constraint is set). The INSERT / UPDATE of a flush becomes     *)
(* visible at COMMIT.                                                      *)

\* <<start_time, duration_minutes, service_type>> of the concurrent bookings
RaceCandidates ==
    {<<T1000, 60, "HAIRCUT">>, <<T1030, 30, "HAIRCUT">>, <<T1000, 30, "HAIRCUT">>}
\* start_time of the concurrent reschedules
RaceStarts == {T1000, T1030}

Pending(t) == tx[t].pc \in {"validated", "conflict"} /\ tx[t].op = "insert"

\* rows inserted or about to be
Allocated == (nextId - 1) + Cardinality({t \in Txs : Pending(t)})

\* first statements of the flush: the static rules and the COUNT(1) query
HookCount(t, op, id, target) ==
    LET r == StaticRules(target, now)
        v == WithEndTime(target)
    IN  tx' = [tx EXCEPT ![t] =
                 IF r # "ok" THEN Idle
                 ELSE [pc |-> IF Overlapping(appts, id, v.start, v.end) # {}
                              THEN "conflict" ELSE "validated",
                       op |-> op, id |-> id, target |-> v]]

\* create_appointment up to the COUNT(1) query of before_insert
BeginCreate(t, user, c) ==
    /\ tx[t].pc = "idle"
    /\ Allocated < MaxAppts
    /\ HookCount(t, "insert", NoId,
                 [start |-> c[1], dur |-> c[2], end |-> Unset, status |-> "SCHEDULED",
                  service |-> c[3], creator |-> user, attendees |-> {}])
    /\ UNCHANGED <<cache, issued, revoked, settings, now, appts, nextId, last, packages, clients, history>>

\* update_appointment: the SELECT that loads the row, start_time assigned
LoadForUpdate(t, id, start_time) ==
    /\ tx[t].pc = "idle"
    /\ id \in DOMAIN appts
    /\ tx' = [tx EXCEPT ![t] = [pc |-> "loaded", op |-> "update", id |-> id,
                                target |-> [appts[id] EXCEPT !.start = start_time]]]
    /\ UNCHANGED <<cache, issued, revoked, settings, now, appts, nextId, last, packages, clients, history>>

\* update_appointment: commit() reaches the COUNT(1) query of before_update
BeginUpdate(t) ==
    /\ tx[t].pc = "loaded"
    /\ HookCount(t, "update", tx[t].id, tx[t].target)
    /\ UNCHANGED <<cache, issued, revoked, settings, now, appts, nextId, last, packages, clients, history>>

\* the second query (LIMIT 1) and the ValueError: the transaction rolls back
RaiseConflict(t) ==
    /\ tx[t].pc = "conflict"
    /\ LET hits == Overlapping(appts, tx[t].id, tx[t].target.start, tx[t].target.end)
       IN  \E b \in (IF hits = {} THEN {Unset} ELSE {appts[i].start : i \in hits}) :
               last' = [op |-> tx[t].op, id |-> tx[t].id, result |-> "conflict",
                        blocking |-> b, prev |-> <<>>,
                        cand |-> <<tx[t].target.start, tx[t].target.dur,
                                   tx[t].target.service, tx[t].target.status>>]
    /\ tx' = [tx EXCEPT ![t] = Idle]
    /\ UNCHANGED <<cache, issued, revoked, settings, now, appts, nextId, packages, clients, history>>

\* the INSERT / UPDATE of the flush and the COMMIT; the UPDATE sets the
\* columns that were assigned (start_time, end_time)
Commit(t) ==
    /\ tx[t].pc = "validated"
    /\ IF tx[t].op = "insert"
       THEN /\ appts' = appts @@ (nextId :> tx[t].target)
            /\ nextId' = nextId + 1
       ELSE /\ appts' = [appts EXCEPT ![tx[t].id].start = tx[t].target.start,
                                      ![tx[t].id].end = tx[t].target.end]
            /\ UNCHANGED nextId
    /\ tx' = [tx EXCEPT ![t] = Idle]
    /\ UNCHANGED <<cache, issued, revoked, settings, now, last, packages, clients, history>>

RaceNext ==
    \/ \E t \in Txs, c \in RaceCandidates : BeginCreate(t, 1, c)
    \/ \E t \in Txs, i \in ApptIds, s \in RaceStarts : LoadForUpdate(t, i, s)
    \/ \E t \in Txs : BeginUpdate(t)
    \/ \E t \in Txs : RaiseConflict(t)
    \/ \E t \in Txs : Commit(t)

RaceSpec == Init /\ [][RaceNext]_vars

---------------------------------------------------------------------------
(* The conflict search applied to the tables it can meet: any rows that    *)
(* passed validation, booked by any user, in any status.                   *)

PersistedRows ==
    {[start |-> s, dur |-> d, end |-> s + d, status |-> st, service |-> "HAIRCUT",
      creator |-> u, attendees |-> {}] :
        s \in {T1000, T1030}, d \in {30, 60}, st \in AppointmentStatus, u \in Users}

ConflictInit ==
    /\ settings = DefaultSettings
    /\ now = StartOfDay
    /\ nextId \in 1..MaxAppts
    /\ appts \in [1..(nextId - 1) -> PersistedRows]
    /\ last = NoOp
    /\ tx = [t \in Txs |-> Idle]
    /\ PkgInit
    /\ LoyaltyInit
    /\ AuthInit

ConflictNext ==
    \E u \in Users, c \in Candidates, att \in AttendeeSets :
        CreateAppointment(u, c[1], c[2], c[3], att)

ConflictSpec == ConflictInit /\ [][ConflictNext]_vars

---------------------------------------------------------------------------
(* The static rules applied to bookings on a grid of start times,          *)
(* durations and service types, under either value of the weekend setting  *)

At(day, hour, minute) == day * MinutesPerDay + hour * MinutesPerHour + minute

\* Mon 10:00; Tue 08:30, 09:59, 10:00, 18:00, 18:30, 19:00, 23:00;
\* Sat 10:00; Sun 10:00
RuleStarts ==
    {At(0, 10, 0), At(1, 8, 30), At(1, 9, 59), At(1, 10, 0), At(1, 18, 0),
     At(1, 18, 30), At(1, 19, 0), At(1, 23, 0), At(5, 10, 0), At(6, 10, 0)}
RuleDurations == {10, 14, 15, 30, 60, 480, 481}
RuleServices == {"HAIRCUT", "PEDICURE"}
\* the values datetime.now() takes: Tue 08:00, Tue 08:01
RuleClock == {StartOfDay, StartOfDay + 1}

RulesInit ==
    /\ settings \in [ALLOW_WEEKEND_APPOINTMENTS : BOOLEAN]
    /\ now \in RuleClock
    /\ ApptInit
    /\ PkgInit
    /\ LoyaltyInit
    /\ AuthInit

RulesNext ==
    \E u \in Creators, s \in RuleStarts, d \in RuleDurations, v \in RuleServices :
        CreateAppointment(u, s, d, v, {})

RulesSpec == RulesInit /\ [][RulesNext]_vars

---------------------------------------------------------------------------
(* Service packages: validate_service_package (before_insert and           *)
(* before_update) and ServicePackage.use_session                           *)

Days(n) == n * MinutesPerDay

\* PackageRules without the upper limit of total_sessions
PackageRules_noMax(target, clock) ==
    LET min_duration == Days(30)
    IN  IF target.expiry_date <= clock + min_duration THEN "expiry"
        ELSE IF target.total_sessions < 1 THEN "sessions_min"
        ELSE IF 10 * target.package_cost
                  < 8 * get_base_cost(target.service_type) * target.total_sessions
             THEN "cost"
        ELSE "ok"

\* the rule of validate_service_package that raises, "ok" when none does;
\* package_cost and the base cost are whole amounts, the 0.8 is 8 / 10
PackageRules(target, clock) ==
    LET min_duration == Days(30)
    IN  IF target.expiry_date <= clock + min_duration THEN "expiry"
        ELSE IF target.total_sessions < 1 THEN "sessions_min"
        ELSE IF target.total_sessions > 52 THEN "sessions_max"
        ELSE IF 10 * target.package_cost
                  < 8 * get_base_cost(target.service_type) * target.total_sessions
             THEN "cost"
        ELSE "ok"

\* can_use_session that also refuses on the day the interval ends
can_use_session_strict(p, clock) ==
    IF p.sessions_remaining <= 0 THEN FALSE
    ELSE IF p.last_session_date # Unset
            /\ clock <= p.last_session_date + Days(p.minimum_interval)
         THEN FALSE
    ELSE TRUE

\* can_use_session without the test of sessions_remaining
can_use_session_noExhaust(p, clock) ==
    IF p.last_session_date # Unset
       /\ clock < p.last_session_date + Days(p.minimum_interval)
    THEN FALSE
    ELSE TRUE

\* can_use_session without the test of the minimum interval
can_use_session_noInterval(p, clock) ==
    IF p.sessions_remaining <= 0 THEN FALSE ELSE TRUE

\* ServicePackage.can_use_session
can_use_session(p, clock) ==
    IF p.sessions_remaining <= 0 THEN FALSE
    ELSE IF p.last_session_date # Unset
            /\ clock < p.last_session_date + Days(p.minimum_interval)
         THEN FALSE
    ELSE TRUE

PkgOutcome(op, id, result) ==
    [op |-> op, id |-> id, result |-> result, blocking |-> Unset, prev |-> <<>>, cand |-> <<>>]

\* session.add(ServicePackage(...)); commit; cand is the object handed in
PurchasePackage(client, service_type, total_sessions, sessions_remaining, expiry_days, package_cost, minimum_interval) ==
    LET id == Len(packages) + 1
        target == [client_id |-> client, service_type |-> service_type,
                   total_sessions |-> total_sessions,
                   sessions_remaining |-> sessions_remaining,
                   purchase_date |-> now, expiry_date |-> now + Days(expiry_days),
                   package_cost |-> package_cost, minimum_interval |-> minimum_interval,
                   last_session_date |-> Unset]
        r == PackageRules(target, now)
    IN  /\ r = "ok" => id <= MaxPackages
        /\ packages' = IF r = "ok" THEN Append(packages, target) ELSE packages
        /\ last' = [PkgOutcome("purchase", IF r = "ok" THEN id ELSE NoId, r)
                       EXCEPT !.cand = <<target>>]
        /\ UNCHANGED <<cache, issued, revoked, settings, now, appts, nextId, tx, clients, history>>

\* the flush of a loaded package whose attributes were assigned; cand is
\* the object as the method left it
FlushPackage(op, id, target) ==
    LET r == PackageRules(target, now)
    IN  /\ packages' = IF r = "ok" THEN [packages EXCEPT ![id] = target] ELSE packages
        /\ last' = [PkgOutcome(op, id, r) EXCEPT !.cand = <<target>>]
        /\ UNCHANGED <<cache, issued, revoked, settings, now, appts, nextId, tx, clients, history>>

\* use_session that leaves last_session_date as it was
use_session_keepDate(p, clock) == [p EXCEPT !.sessions_remaining = @ - 1]

\* the assignments of ServicePackage.use_session once can_use_session passed
use_session(p, clock) ==
    [p EXCEPT !.sessions_remaining = @ - 1, !.last_session_date = clock]

\* package.use_session(); commit
UseSession(id) ==
    /\ id \in DOMAIN packages
    /\ IF ~can_use_session(packages[id], now)
       THEN /\ last' = [PkgOutcome("use_session", id, "cannot_use")
                           EXCEPT !.cand = <<packages[id]>>]
            /\ UNCHANGED <<cache, issued, revoked, settings, now, appts, nextId, tx, packages, clients, history>>
       ELSE FlushPackage("use_session", id, use_session(packages[id], now))

\* restore_session: one session more, never above total_sessions;
\* last_session_date is not touched
restore_session(p) ==
    [p EXCEPT !.sessions_remaining =
                 IF @ + 1 > p.total_sessions THEN p.total_sessions ELSE @ + 1]

\* package.restore_session(); commit, undoing a consumed session
RestoreSession(id) ==
    /\ id \in DOMAIN packages
    /\ packages[id].last_session_date # Unset
    /\ FlushPackage("restore_session", id, restore_session(packages[id]))

\* <<client, service_type, total_sessions, sessions_remaining, days to
\*   expiry, package_cost, minimum_interval>> of the purchases
Purchases ==
    {<<1, "HAIRCUT", 2, 2, 90, 48, 1>>, <<2, "MASSAGE", 1, 1, 31, 60, 7>>,
     <<2, "MASSAGE", 2, 2, 90, 120, 7>>,
     <<1, "HAIRCUT", 2, 3, 90, 48, 1>>,
     <<1, "HAIRCUT", 0, 0, 90, 48, 1>>, <<1, "HAIRCUT", 53, 53, 90, 2000, 1>>,
     <<1, "HAIRCUT", 2, 2, 30, 48, 1>>, <<1, "HAIRCUT", 2, 2, 90, 47, 1>>}

\* the values datetime.now() takes: Tue 08:00 and 4, 7 and 32 days later
PkgClock == {StartOfDay, StartOfDay + Days(4), StartOfDay + Days(7), StartOfDay + Days(32)}

\* the times at which purchases arrive: Tue 08:00 and 4 days later
PurchaseClock == {StartOfDay, StartOfDay + Days(4)}

PkgTick ==
    /\ \E c \in PkgClock : c > now /\ now' = c
    /\ UNCHANGED <<cache, issued, revoked, settings, appts, nextId, last, tx, packages, clients, history>>

PkgNext ==
    \/ /\ now \in PurchaseClock
       /\ \E p \in Purchases : PurchasePackage(p[1], p[2], p[3], p[4], p[5], p[6], p[7])
    \/ \E i \in 1..MaxPackages : UseSession(i)
    \/ \E i \in 1..MaxPackages : RestoreSession(i)
    \/ PkgTick

PkgSpec == Init /\ [][PkgNext]_vars

---------------------------------------------------------------------------
(* Service history and the loyalty aggregate of the client:                *)
(* update_client_metrics (after_insert of ServiceHistory)                  *)

\* the statement of the transaction that a database error interrupts
Faults == {"none", "insert", "update"}

\* ServiceHistory(...) with the columns the ledgers read
HistoryRow(client, service_type, service_cost, loyalty_points_earned, points_redeemed, package_id, date_of_service) ==
    [client_id |-> client, service_type |-> service_type,
     service_cost |-> service_cost,
     loyalty_points_earned |-> loyalty_points_earned,
     points_redeemed |-> points_redeemed, package_id |-> package_id,
     date_of_service |-> date_of_service]

\* how the flush of a new ServiceHistory row ends: the INSERT raises on a
\* foreign key without its row (client_id, package_id) or on a database
\* error, then the UPDATE of the after_insert hook may raise
HistoryResult(target, fault) ==
    IF \/ target.client_id \notin DOMAIN clients
       \/ (target.package_id # Unset /\ target.package_id \notin DOMAIN packages)
       \/ fault = "insert"
    THEN "insert_failed"
    ELSE IF fault = "update" THEN "update_failed"
    ELSE "ok"

\* the UPDATE clients statement of update_client_metrics
update_client_metrics(cl, target) ==
    [cl EXCEPT ![target.client_id] =
        [@ EXCEPT !.loyalty_points = @ + target.loyalty_points_earned,
                  !.total_spent = @ + target.service_cost,
                  !.visit_count = @ + 1]]

\* AddHistory that writes over the latest row of the table
AddHistory_overwrite(h, target) ==
    IF h = <<>> THEN <<target>> ELSE [h EXCEPT ![Len(h)] = target]

\* session.add(target): the INSERT of one more service_history row
AddHistory(h, target) == Append(h, target)

\* InsertServiceHistory that keeps the row when the hook's UPDATE raised
InsertServiceHistory_keepsRow(target, fault) ==
    LET r == HistoryResult(target, fault)
    IN  /\ r # "insert_failed" => Len(history) < MaxHistory
        /\ history' = IF r # "insert_failed" THEN AddHistory(history, target) ELSE history
        /\ clients' = IF r = "ok" THEN update_client_metrics(clients, target) ELSE clients
        /\ last' = [op |-> "history", id |-> NoId, result |-> r, blocking |-> Unset,
                    prev |-> <<>>, cand |-> <<target>>]
        /\ UNCHANGED <<cache, issued, revoked, settings, now, appts, nextId, tx, packages>>

\* session.add(ServiceHistory(...)); commit: the INSERT, then the UPDATE of
\* clients that the after_insert hook executes in the same transaction; an
\* exception in either rolls the transaction back
InsertServiceHistory(target, fault) ==
    LET r == HistoryResult(target, fault)
    IN  /\ r = "ok" => Len(history) < MaxHistory
        /\ history' = IF r = "ok" THEN AddHistory(history, target) ELSE history
        /\ clients' = IF r = "ok" THEN update_client_metrics(clients, target) ELSE clients
        /\ last' = [op |-> "history", id |-> NoId, result |-> r, blocking |-> Unset,
                    prev |-> <<>>, cand |-> <<target>>]
        /\ UNCHANGED <<cache, issued, revoked, settings, now, appts, nextId, tx, packages>>

\* <<service_type, service_cost, loyalty_points_earned, points_redeemed>>
Services ==
    {<<"HAIRCUT", 30, 10, 0>>, <<"MASSAGE", 75, 20, 0>>, <<"HAIRCUT", 0, 0, 25>>,
     <<"HAIRCUT", 50, -50, 0>>, <<"HAIRCUT", 30, 15, 0>>}

LoyaltyNext ==
    \E c \in Users, r \in Services, f \in Faults :
        InsertServiceHistory(HistoryRow(c, r[1], r[2], r[3], r[4], Unset, now), f)

LoyaltySpec == Init /\ [][LoyaltyNext]_vars

---------------------------------------------------------------------------
(* The ledgers together: a booking, its completion, the package session it *)
(* uses and the ServiceHistory row that records it                         *)

\* one unit of work, as in test_service_package_tracking: the package's
\* session is used and the ServiceHistory row of the service is added, then
\* one commit flushes the UPDATE of the package (before_update hook), the
\* INSERT of the row and the UPDATE of the client; an exception in any of
\* them rolls the transaction back
RecordSession(id, target, fault) ==
    /\ id \in DOMAIN packages
    /\ target.package_id = id
    /\ can_use_session(packages[id], now)
    /\ LET p == use_session(packages[id], now)
           pr == PackageRules(p, now)
           r == IF pr # "ok" THEN pr ELSE HistoryResult(target, fault)
       IN  /\ r = "ok" => Len(history) < MaxHistory
           /\ packages' = IF r = "ok" THEN [packages EXCEPT ![id] = p] ELSE packages
           /\ history' = IF r = "ok" THEN AddHistory(history, target) ELSE history
           /\ clients' = IF r = "ok" THEN update_client_metrics(clients, target) ELSE clients
           /\ last' = [op |-> "record_session", id |-> id, result |-> r,
                       blocking |-> Unset, prev |-> <<>>, cand |-> <<target>>]
           /\ UNCHANGED <<cache, issued, revoked, settings, now, appts, nextId, tx>>

\* <<client, service_type, total_sessions, sessions_remaining, days to
\*   expiry, package_cost, minimum_interval>> of the package bought
LedgerPurchase == <<1, "MASSAGE", 2, 2, 90, 120, 7>>

\* the ServiceHistory row of a massage at 10:00 for client 1, paid from
\* package pid or, when pid is Unset, directly
LedgerRow(pid) == HistoryRow(1, "MASSAGE", 75, 20, 0, pid, T1000)

LedgerNext ==
    \/ PurchasePackage(LedgerPurchase[1], LedgerPurchase[2], LedgerPurchase[3], LedgerPurchase[4], LedgerPurchase[5], LedgerPurchase[6], LedgerPurchase[7])
    \/ CreateAppointment(1, T1000, 60, "MASSAGE", {})
    \/ \E i \in ApptIds, st \in {"COMPLETED", "CANCELLED"} : UpdateAppointmentStatus(1, i, st)
    \/ \E f \in Faults : InsertServiceHistory(LedgerRow(Unset), f)
    \/ \E i \in 1..MaxPackages, f \in Faults : RecordSession(i, LedgerRow(i), f)

LedgerSpec == Init /\ [][LedgerNext]_vars

---------------------------------------------------------------------------
(* Concurrent writers of the ledgers. Each request has its own session and *)
(* transaction (tx); an object is loaded by a SELECT, changed in memory and *)
(* written by the UPDATE of the flush at commit.                           *)

\* <<client, service_type, total_sessions, sessions_remaining, days to
\*   expiry, package_cost, minimum_interval>> of the package bought: one
\* massage session
RacePurchase == <<1, "MASSAGE", 1, 1, 90, 60, 7>>

\* the SELECT that loads package id into the session of t
LoadPackage(t, id) ==
    /\ tx[t].pc = "idle"
    /\ id \in DOMAIN packages
    /\ tx' = [tx EXCEPT ![t] = [pc |-> "loaded_package", id |-> id, obj |-> packages[id]]]
    /\ UNCHANGED <<cache, issued, revoked, settings, now, appts, nextId, last, packages, clients, history>>

\* package.use_session() on the loaded object and session.add of the
\* ServiceHistory row of the service; ValueError ends the request
UseLoaded(t) ==
    /\ tx[t].pc = "loaded_package"
    /\ IF ~can_use_session(tx[t].obj, now)
       THEN /\ tx' = [tx EXCEPT ![t] = Idle]
            /\ last' = [PkgOutcome("use_session", tx[t].id, "cannot_use")
                           EXCEPT !.cand = <<tx[t].obj>>]
       ELSE /\ tx' = [tx EXCEPT ![t] = [pc |-> "used", id |-> tx[t].id,
                                        obj |-> use_session(tx[t].obj, now)]]
            /\ UNCHANGED last
    /\ UNCHANGED <<cache, issued, revoked, settings, now, appts, nextId, packages, clients, history>>

\* commit of t: before_update validates the object, the UPDATE sets the
\* columns that were assigned to the values of the object, the INSERT adds
\* the ServiceHistory row and its hook updates the client
CommitUse(t) ==
    /\ tx[t].pc = "used"
    /\ LET id == tx[t].id
           obj == tx[t].obj
           target == HistoryRow(obj.client_id, obj.service_type, 0, 0, 0, id, now)
           pr == PackageRules(obj, now)
           r == IF pr # "ok" THEN pr ELSE HistoryResult(target, "none")
       IN  /\ r = "ok" => Len(history) < MaxHistory
           /\ packages' = IF r = "ok"
                          THEN [packages EXCEPT
                                  ![id].sessions_remaining = obj.sessions_remaining,
                                  ![id].last_session_date = obj.last_session_date]
                          ELSE packages
           /\ history' = IF r = "ok" THEN AddHistory(history, target) ELSE history
           /\ clients' = IF r = "ok" THEN update_client_metrics(clients, target) ELSE clients
           /\ last' = [PkgOutcome("use_session", id, r) EXCEPT !.cand = <<obj>>]
    /\ tx' = [tx EXCEPT ![t] = Idle]
    /\ UNCHANGED <<cache, issued, revoked, settings, now, appts, nextId>>

UseRaceNext ==
    \/ PurchasePackage(RacePurchase[1], RacePurchase[2], RacePurchase[3], RacePurchase[4], RacePurchase[5], RacePurchase[6], RacePurchase[7])
    \/ \E t \in Txs, i \in 1..MaxPackages : LoadPackage(t, i)
    \/ \E t \in Txs : UseLoaded(t)
    \/ \E t \in Txs : CommitUse(t)

UseRaceSpec == Init /\ [][UseRaceNext]_vars

\* session.add(ServiceHistory(...)) in the session of t; seen is the
\* client's row as the session can read it at that moment
BeginInsert(t, target) ==
    /\ tx[t].pc = "idle"
    /\ target.client_id \in DOMAIN clients
    /\ tx' = [tx EXCEPT ![t] = [pc |-> "added", row |-> target,
                                seen |-> clients[target.client_id]]]
    /\ UNCHANGED <<cache, issued, revoked, settings, now, appts, nextId, last, packages, clients, history>>

\* the flush of t: the INSERT, then the UPDATE clients SET loyalty_points =
\* loyalty_points + :points ... of the after_insert hook. The statement
\* locks the client's row until t ends, so it waits while another
\* transaction holds that lock
FlushInsert(t) ==
    /\ tx[t].pc = "added"
    /\ \A u \in Txs : tx[u].pc = "flushed" => tx[u].row.client_id # tx[t].row.client_id
    /\ tx' = [tx EXCEPT ![t].pc = "flushed"]
    /\ UNCHANGED <<cache, issued, revoked, settings, now, appts, nextId, last, packages, clients, history>>

\* CommitInsert whose UPDATE writes values computed from the row the
\* session had read (read-modify-write)
CommitInsert_readModifyWrite(t) ==
    /\ tx[t].pc = "flushed"
    /\ Len(history) < MaxHistory
    /\ history' = AddHistory(history, tx[t].row)
    /\ clients' = [clients EXCEPT ![tx[t].row.client_id] =
                      update_client_metrics(
                          [clients EXCEPT ![tx[t].row.client_id] = tx[t].seen],
                          tx[t].row)[tx[t].row.client_id]]
    /\ last' = [op |-> "history", id |-> NoId, result |-> "ok", blocking |-> Unset,
                prev |-> <<tx[t].seen>>, cand |-> <<tx[t].row>>]
    /\ tx' = [tx EXCEPT ![t] = Idle]
    /\ UNCHANGED <<cache, issued, revoked, settings, now, appts, nextId, packages>>

\* COMMIT of t: the row and the increments of the hook's UPDATE, applied by
\* the database to the values the client's row holds, become visible; prev
\* is the client's row as t had seen it
CommitInsert(t) ==
    /\ tx[t].pc = "flushed"
    /\ Len(history) < MaxHistory
    /\ history' = AddHistory(history, tx[t].row)
    /\ clients' = update_client_metrics(clients, tx[t].row)
    /\ last' = [op |-> "history", id |-> NoId, result |-> "ok", blocking |-> Unset,
                prev |-> <<tx[t].seen>>, cand |-> <<tx[t].row>>]
    /\ tx' = [tx EXCEPT ![t] = Idle]
    /\ UNCHANGED <<cache, issued, revoked, settings, now, appts, nextId, packages>>

\* <<client, service_type, service_cost, loyalty_points_earned>> of the rows
RaceRows == {<<1, "HAIRCUT", 30, 10>>, <<1, "MASSAGE", 75, 20>>, <<2, "HAIRCUT", 30, 10>>}

InsertRaceNext ==
    \/ \E t \in Txs, r \in RaceRows :
          BeginInsert(t, HistoryRow(r[1], r[2], r[3], r[4], 0, Unset, now))
    \/ \E t \in Txs : FlushInsert(t)
    \/ \E t \in Txs : CommitInsert(t)

InsertRaceSpec == Init /\ [][InsertRaceNext]_vars

---------------------------------------------------------------------------
(* Status requests of the creator, of an attendee and of a user who is     *)
(* neither                                                                 *)

\* the attendees of the bookings: nobody, or user 2
StatusAttendees == {{}, {2}}

\* <<start_time, duration_minutes, service_type>> of the bookings
StatusCandidates == {<<T1000, 30, "HAIRCUT">>, <<T1030, 30, "HAIRCUT">>}

StatusNext ==
    \/ \E c \in StatusCandidates, att \in StatusAttendees :
          CreateAppointment(1, c[1], c[2], c[3], att)
    \/ \E u \in Users, i \in ApptIds, st \in AppointmentStatus :
          UpdateAppointmentStatus(u, i, st)

StatusSpec == Init /\ [][StatusNext]_vars

---------------------------------------------------------------------------
(* Accounts: Mutation.delete_user, which asks for no authentication, and   *)
(* the rows it removes. The client of user u is clients[u]; the ORM        *)
(* cascades the delete of a client to its service_history and              *)
(* service_packages rows (packages are numbered by position, the rows of   *)
(* the other clients keep their order).                                    *)

\* the users with is_admin set (the column defaults to False)
Admins == {}

\* Mutation.delete_user(user_id): caller is whoever sends the request;
\* cand is <<caller, user>>
DeleteUser(caller, user) ==
    /\ appts' = [i \in {j \in DOMAIN appts : appts[j].creator # user} |-> appts[i]]
    /\ clients' = [c \in DOMAIN clients \ {user} |-> clients[c]]
    /\ history' = SelectSeq(history, LAMBDA h : h.client_id # user)
    /\ packages' = SelectSeq(packages, LAMBDA q : q.client_id # user)
    /\ last' = [Refused("delete_user", NoId, "ok") EXCEPT !.cand = <<caller, user>>]
    /\ UNCHANGED <<cache, issued, revoked, settings, now, nextId, tx>>

\* <<start_time, duration_minutes, service_type>> of the bookings
AccountCandidates == {<<T1000, 30, "HAIRCUT">>, <<T1030, 30, "HAIRCUT">>}

AccountNext ==
    \/ \E u \in Users, c \in AccountCandidates : CreateAppointment(u, c[1], c[2], c[3], {})
    \/ \E u \in Users, i \in ApptIds : DeleteAppointment(u, i)
    \/ \E caller \in Users, u \in Users : DeleteUser(caller, u)
    \/ \E c \in Users :
          InsertServiceHistory(HistoryRow(c, "HAIRCUT", 30, 10, 0, Unset, now), "none")

AccountSpec == Init /\ [][AccountNext]_vars

---------------------------------------------------------------------------
(* Tokens and the rate limit of backend/src/main/auth.py over the          *)
(* RedisCache of cache.py. REDIS_ENABLED is False, so the cache is the     *)
(* dictionary _local_cache: key -> <<value, expire_at>>. Here the clock    *)
(* counts minutes; 60 seconds are one minute.                              *)

TokenTypes == {"access", "refresh"}
ACCESS_TOKEN_EXPIRE_MINUTES == 30
REFRESH_TOKEN_EXPIRE_DAYS == 7
RATE_LIMIT_PER_MINUTE == 60

\* Python None as a cache result; a hit is <<value>>
None == <<>>

\* RedisCache.get once awaited: the value when the key is present and
\* expire_at > now, None otherwise
get(c, key, clock) ==
    IF key \in DOMAIN c /\ c[key][2] > clock THEN <<c[key][1]>> ELSE None

\* the dictionary after RedisCache.get: an expired key is deleted
get_evict(c, key, clock) ==
    IF key \in DOMAIN c /\ ~(c[key][2] > clock)
    THEN [k \in DOMAIN c \ {key} |-> c[k]]
    ELSE c

\* RedisCache.set(key, value, expire_in) with expire_in in minutes
set(c, key, value, expire_in, clock) ==
    [k \in DOMAIN c \cup {key} |-> IF k = key THEN <<value, clock + expire_in>> ELSE c[k]]

\* RedisCache.delete
delete(c, key) == [k \in DOMAIN c \ {key} |-> c[k]]

\* what the call cache.get(key) evaluates to without await: get is declared
\* async def, so the call returns a coroutine object and its body does
\* not run
get_not_awaited(c, key, clock) == <<"coroutine object RedisCache.get">>

\* Python bool() of a cache result: None is false, any object is true
bool(v) == v # None

\* str() of a count and int() of that string
str(n) == <<"str", n>>
int(v) == v[2]

\* the payload create_token encodes: a token is its payload, signed
Token(subject, token_type, clock) ==
    [sub |-> subject, type |-> token_type, iat |-> clock,
     exp |-> clock + (IF token_type = "access" THEN ACCESS_TOKEN_EXPIRE_MINUTES
                      ELSE REFRESH_TOKEN_EXPIRE_DAYS * MinutesPerDay)]

TokenKey(token, token_type) == <<"token", token_type, token>>

\* is_token_valid: a plain def that calls the async cache.get
is_token_valid(c, token, token_type, clock) ==
    bool(get_not_awaited(c, TokenKey(token, token_type), clock))

\* decode_token: the subject, or the detail of the 401 it raises;
\* jwt.decode raises ExpiredSignatureError once exp is reached
decode_token(c, token, clock) ==
    IF token.exp <= clock THEN "Token has expired"
    ELSE IF ~is_token_valid(c, token, token.type, clock) THEN "Token has been revoked"
    ELSE "sub"

AuthOutcome(op, id, result, cand) ==
    [op |-> op, id |-> id, result |-> result, blocking |-> Unset, prev |-> <<>>,
     cand |-> cand]

\* create_token(subject, token_type); revoked holds the tokens revoked
\* since they were last handed out
CreateToken(subject, token_type) ==
    LET token == Token(subject, token_type, now)
    IN  /\ Cardinality(issued \cup {token}) <= MaxTokens
        /\ issued' = issued \cup {token}
        /\ revoked' = revoked \ {token}
        /\ cache' = set(cache, TokenKey(token, token_type), "valid", token.exp - now, now)
        /\ last' = AuthOutcome("create_token", subject, "ok", <<token>>)
        /\ UNCHANGED <<settings, now, appts, nextId, tx, packages, clients, history>>

\* revoke_token(token, token_type)
RevokeToken(token) ==
    /\ token \in issued
    /\ cache' = delete(cache, TokenKey(token, token.type))
    /\ revoked' = revoked \cup {token}
    /\ last' = AuthOutcome("revoke_token", token.sub, "ok", <<token>>)
    /\ UNCHANGED <<issued, settings, now, appts, nextId, tx, packages, clients, history>>

\* decode_token(token); id is the subject returned when result is "sub"
DecodeToken(token) ==
    /\ token \in issued
    /\ last' = AuthOutcome("decode_token", token.sub, decode_token(cache, token, now), <<token>>)
    /\ UNCHANGED <<cache, issued, revoked, settings, now, appts, nextId, tx, packages, clients, history>>

\* the values of the clock: Tue 08:00, 10 and 31 minutes and 8 days later
TokenClock == {StartOfDay, StartOfDay + 10, StartOfDay + 31, StartOfDay + 8 * MinutesPerDay}

TokenTick ==
    /\ \E c \in TokenClock : c > now /\ now' = c
    /\ UNCHANGED <<cache, issued, revoked, settings, appts, nextId, last, tx, packages, clients, history>>

TokenNext ==
    \/ \E u \in Users, ty \in TokenTypes : CreateToken(u, ty)
    \/ \E u \in Users, ty \in TokenTypes, c \in TokenClock : RevokeToken(Token(u, ty, c))
    \/ \E u \in Users, ty \in TokenTypes, c \in TokenClock : DecodeToken(Token(u, ty, c))
    \/ TokenTick

TokenSpec == Init /\ [][TokenNext]_vars


\* the host of a request that carries no token
AnonymousHost == 0

RateKey(client_id) == <<"rate_limit", client_id>>

\* the count check_rate_limit computes and stores for the client
RateCount(c, client_id, clock) ==
    LET current_count == get(c, RateKey(client_id), clock)
    IN  (IF bool(current_count) THEN int(current_count[1]) ELSE 0) + 1

\* how the inner try of check_rate_limit ends: the HTTPException(429) is
\* re-raised by "except HTTPException: raise"
InnerTry(count) ==
    IF count > RATE_LIMIT_PER_MINUTE THEN "HTTPException" ELSE "return"

\* how check_rate_limit ends: the outer "except Exception" catches what
\* leaves the inner try, HTTPException being an Exception, logs it and
\* falls off the end of the function
check_rate_limit(count) ==
    IF InnerTry(count) \in {"HTTPException", "Exception"} THEN "return"
    ELSE InnerTry(count)

\* check_auth(info) for a request of client_id: "429" when check_rate_limit
\* raises, else the user, or PermissionError without one; cand is the
\* count of the request
CheckAuth(client_id) ==
    LET count == RateCount(cache, client_id, now)
        rate == check_rate_limit(count)
    IN  /\ count <= MaxRequests
        /\ cache' = set(get_evict(cache, RateKey(client_id), now),
                        RateKey(client_id), str(count), 1, now)
        /\ last' = AuthOutcome("check_auth", client_id,
                       IF rate = "HTTPException" THEN "429"
                       ELSE IF client_id = AnonymousHost THEN "Not authenticated"
                       ELSE "user",
                       <<count>>)
        /\ UNCHANGED <<issued, revoked, settings, now, appts, nextId, tx, packages, clients, history>>

RateClients == {1, AnonymousHost}

\* the values of the clock: Tue 08:00 and one minute later
RateClock == {StartOfDay, StartOfDay + 1}

RateTick ==
    /\ \E c \in RateClock : c > now /\ now' = c
    /\ UNCHANGED <<cache, issued, revoked, settings, appts, nextId, last, tx, packages, clients, history>>

RateNext ==
    \/ \E c \in RateClients : CheckAuth(c)
    \/ RateTick

RateSpec == Init /\ [][RateNext]_vars

---------------------------------------------------------------------------
(* Properties *)

\* the half-open intervals [s1, e1) and [s2, e2) intersect
Intersect(s1, e1, s2, e2) == s1 < e2 /\ s2 < e1

\* the persisted rows other than id that a candidate [s, s + d) intersects
Intersecting(id, s, d) ==
    {i \in DOMAIN appts \ {id} : Intersect(s, s + d, appts[i].start, appts[i].end)}

\* the rule, if any, that rejects the candidate c the step validated
RuleOf(c) == StaticRules([start |-> c[1], dur |-> c[2], service |-> c[3]], now)

\* the step is a booking request
IsCreate == last'.op = "create" /\ now' = now
\* the step is an update request of the creator that leaves the status alone
IsReschedule ==
    /\ last'.op = "update" /\ now' = now
    /\ last'.result # "not_found"
    /\ last'.cand[4] = last'.prev[3]

\* the edges of the status transition machine
AllowedEdges ==
    {<<"SCHEDULED", "CONFIRMED">>, <<"SCHEDULED", "CANCELLED">>,
     <<"CONFIRMED", "COMPLETED">>, <<"CONFIRMED", "CANCELLED">>}

\* C2: a request changes the status of an appointment only along an edge of
\* the transition table; any other request leaves the status as it was.
C2_OnlyAllowedTransitions ==
    [][\A i \in DOMAIN appts \cap DOMAIN appts' :
          appts'[i].status # appts[i].status
              => <<appts[i].status, appts'[i].status>> \in AllowedEdges]_vars

\* C6: every persisted appointment has end_time = start_time + duration_minutes.
C6_EndTimeDerived ==
    \A i \in DOMAIN appts : appts[i].end = appts[i].start + appts[i].dur

\* a reschedule that changed start_time and duration_minutes was persisted
C6_Witness ==
    /\ last.op = "update" /\ last.result = "ok"
    /\ appts[last.id].start # last.prev[1]
    /\ appts[last.id].dur # last.prev[2]
    /\ appts[last.id].end = appts[last.id].start + appts[last.id].dur

\* C7: a booking that passes the static rules is accepted when every
\* persisted appointment its interval intersects is CANCELLED, and rejected
\* as a conflict when one of them has any other status.
C7_CancelledNeverBlocks ==
    [][(IsCreate /\ RuleOf(last'.cand) = "ok")
          => LET hit == Intersecting(NoId, last'.cand[1], last'.cand[2])
             IN  /\ (\A i \in hit : appts[i].status = "CANCELLED")
                        => last'.result = "ok" /\ last'.id \in DOMAIN appts'
                 /\ \A st \in AppointmentStatus \ {"CANCELLED"} :
                        (\E i \in hit : appts[i].status = st)
                        => last'.result = "conflict" /\ appts' = appts]_vars

\* a booking was accepted for the interval of a cancelled appointment
C7_Witness ==
    /\ last.op = "create" /\ last.result = "ok"
    /\ \E i \in DOMAIN appts \ {last.id} :
          /\ appts[i].status = "CANCELLED"
          /\ appts[i].start = appts[last.id].start
          /\ appts[i].end = appts[last.id].end

\* C8: the conflict error names the lowest start_time among the
\* non-cancelled appointments that the candidate overlaps.
C8_LowestBlockingStart ==
    [][(IsCreate /\ last'.result = "conflict")
          => \A i \in Intersecting(NoId, last'.cand[1], last'.cand[2]) :
                 appts[i].status # "CANCELLED" => last'.blocking <= appts[i].start]_vars

\* C9: a reschedule by the creator runs the rules of a booking and searches
\* conflicts among the other rows only: it is rejected, leaving the row as
\* it was, when a rule fails or another non-cancelled appointment
\* intersects the new interval, and persisted otherwise.
C9_RescheduleValidated ==
    [][IsReschedule
          => LET i == last'.id
                 s == last'.cand[1]
                 d == last'.cand[2]
                 rule == RuleOf(last'.cand)
                 others == {j \in Intersecting(i, s, d) : appts[j].status # "CANCELLED"}
             IN  /\ rule # "ok" => last'.result = rule /\ appts' = appts
                 /\ rule = "ok" /\ others # {}
                        => last'.result = "conflict" /\ appts' = appts
                 /\ rule = "ok" /\ others = {}
                        => /\ last'.result = "ok"
                           /\ appts'[i].start = s /\ appts'[i].dur = d
                           /\ appts'[i].end = s + d]_vars

\* a reschedule into an interval that intersects only the row's own
\* previous interval was persisted
C9_Witness ==
    /\ last.op = "update" /\ last.result = "ok"
    /\ appts[last.id].start # last.prev[1]
    /\ Intersect(appts[last.id].start, appts[last.id].end,
                 last.prev[1], last.prev[1] + last.prev[2])

\* C10: a request that validation rejects changes no persisted appointment
\* and adds none; one it accepts changes no row but the candidate's.
C10_ValidationFrame ==
    [][/\ last'.result # "ok" => appts' = appts /\ nextId' = nextId
       /\ last'.op \in {"create", "update", "status"}
              => \A i \in DOMAIN appts \ {last'.id} :
                     i \in DOMAIN appts' /\ appts'[i] = appts[i]]_vars

\* a booking was rejected as a conflict while appointments are persisted
C10_Witness ==
    /\ last.op = "create" /\ last.result = "conflict"
    /\ appts # <<>>

\* C1: no two persisted appointments with status other than CANCELLED have
\* intersecting intervals, whatever the interleaving of concurrent bookings
\* and reschedules.
C1_NoDoubleBooking ==
    \A i, j \in DOMAIN appts :
        (i # j /\ appts[i].status # "CANCELLED" /\ appts[j].status # "CANCELLED")
        => ~Intersect(appts[i].start, appts[i].end, appts[j].start, appts[j].end)

\* a booking was accepted that starts when an appointment of another user ends
C5_Witness ==
    /\ last.op = "create" /\ last.result = "ok"
    /\ \E i \in DOMAIN appts \ {last.id} :
          /\ appts[i].status # "CANCELLED"
          /\ appts[i].creator # appts[last.id].creator
          /\ appts[i].end = appts[last.id].start

\* C5: a booking that passes the static rules is rejected as a conflict iff
\* a persisted appointment that is not CANCELLED, of whatever creator, has
\* an interval [s', e') with s < e' and s' < e; one that abuts is accepted.
C5_HalfOpenConflict ==
    [][(IsCreate /\ RuleOf(last'.cand) = "ok")
          => LET s == last'.cand[1]
                 e == last'.cand[1] + last'.cand[2]
                 conflict == \E i \in DOMAIN appts :
                                /\ appts[i].status # "CANCELLED"
                                /\ s < appts[i].end
                                /\ appts[i].start < e
             IN  /\ last'.result = (IF conflict THEN "conflict" ELSE "ok")
                 /\ ~conflict => appts'[last'.id].start = s /\ appts'[last'.id].end = e]_vars

\* C3: every persisted package has 0 <= sessions_remaining <= total_sessions.
C3_SessionsInRange ==
    \A i \in DOMAIN packages :
        /\ 0 <= packages[i].sessions_remaining
        /\ packages[i].sessions_remaining <= packages[i].total_sessions

RECURSIVE SumEarned(_, _), SumRedeemed(_, _)
SumEarned(h, c) ==
    IF h = <<>> THEN 0
    ELSE (IF Head(h).client_id = c THEN Head(h).loyalty_points_earned ELSE 0)
         + SumEarned(Tail(h), c)
SumRedeemed(h, c) ==
    IF h = <<>> THEN 0
    ELSE (IF Head(h).client_id = c THEN Head(h).points_redeemed ELSE 0)
         + SumRedeemed(Tail(h), c)

\* C4: the loyalty_points of each client equal the sum of
\* loyalty_points_earned minus the sum of points_redeemed over the client's
\* ServiceHistory records.
C4_BalanceIsLedgerSum ==
    \A c \in Users :
        clients[c].loyalty_points = SumEarned(history, c) - SumRedeemed(history, c)

\* C11: an accepted booking starts at an hour in [9, 19), ends at an hour
\* below 19 and ends on the calendar day it starts.
C11_WholeSpanInBusinessHours ==
    [][(IsCreate /\ last'.result = "ok")
          => LET s == last'.cand[1]
                 e == last'.cand[1] + last'.cand[2]
             IN  /\ 9 <= Hour(s) /\ Hour(s) < 19
                 /\ Hour(e) < 19
                 /\ e \div MinutesPerDay = s \div MinutesPerDay]_vars

DurationErrors == {"duration_min", "duration_max", "duration_service"}

\* C13: a booking that passes the hours, weekday and notice rules is rejected
\* for its duration iff the duration is below 15, above 480 or below the
\* duration of its service type; 10 and 481 are rejected, 480 is not, and a
\* booking whose duration is out of these bounds is never persisted.
C13_DurationRule ==
    [][IsCreate
          => LET d == last'.cand[2]
                 inBounds == /\ 15 <= d /\ d <= 480
                             /\ d >= get_duration_minutes(last'.cand[3])
             IN  /\ last'.result \notin {"hours", "weekend", "notice"}
                        => /\ last'.result \in DurationErrors <=> ~inBounds
                           /\ d \in {10, 481} => last'.result \in DurationErrors
                           /\ d = 480 => last'.result \notin DurationErrors
                 /\ ~inBounds => last'.result # "ok" /\ appts' = appts]_vars

\* a booking of 480 minutes was accepted
C13_Witness ==
    /\ last.op = "create" /\ last.result = "ok"
    /\ last.cand[2] = 480

C15_CreatedScheduled ==
    [][(IsCreate /\ last'.result = "ok")
          => /\ last'.id \notin DOMAIN appts
             /\ DOMAIN appts' = DOMAIN appts \cup {last'.id}
             /\ appts'[last'.id].status = "SCHEDULED"]_vars

\* a booking was accepted next to an appointment that is no longer SCHEDULED
C15_Witness ==
    /\ last.op = "create" /\ last.result = "ok"
    /\ appts[last.id].status = "SCHEDULED"
    /\ \E i \in DOMAIN appts \ {last.id} : appts[i].status = "CONFIRMED"

\* the step is a use_session request on a persisted package
IsUseSession == last'.op = "use_session" /\ now' = now

\* p is inside its minimum interval at time clock
IntervalBlocked(p, clock) ==
    /\ p.last_session_date # Unset
    /\ clock < p.last_session_date + Days(p.minimum_interval)

\* C16: use_session passes the can_use_session test iff sessions_remaining > 0
\* and last_session_date is null or at least minimum_interval days back; with
\* one session left and an interval of 7 days it does not 4 days after the
\* last session and does 7 days after it.
C16_CanUseSession ==
    [][IsUseSession
          => LET p == packages[last'.id]
                 usable == last'.result # "cannot_use"
             IN  /\ usable <=> /\ p.sessions_remaining > 0
                                /\ \/ p.last_session_date = Unset
                                   \/ now >= p.last_session_date + Days(p.minimum_interval)
                 /\ (p.sessions_remaining = 1 /\ p.minimum_interval = 7
                        /\ p.last_session_date # Unset)
                        => /\ now = p.last_session_date + Days(4) => ~usable
                           /\ now = p.last_session_date + Days(7) => usable]_vars

\* the last session of a package with an interval of 7 days was used 7 days
\* after the one before
C16_Witness ==
    /\ last.op = "use_session" /\ last.result = "ok"
    /\ packages[last.id].minimum_interval = 7
    /\ packages[last.id].total_sessions = 2
    /\ packages[last.id].sessions_remaining = 0
    /\ now = StartOfDay + Days(7)

\* C17: use_session on a package that has no session left or is inside its
\* minimum interval raises and leaves every package as it was.
C17_BlockedUseFails ==
    [][(IsUseSession /\ (\/ packages[last'.id].sessions_remaining = 0
                         \/ IntervalBlocked(packages[last'.id], now)))
          => /\ last'.result = "cannot_use"
             /\ last'.cand[1] = packages[last'.id]
             /\ packages' = packages]_vars

\* use_session was refused on a package with no session left whose minimum
\* interval has elapsed
C17_Witness ==
    /\ last.op = "use_session" /\ last.result = "cannot_use"
    /\ packages[last.id].sessions_remaining = 0
    /\ ~IntervalBlocked(packages[last.id], now)

\* C18: when can_use_session is true, use_session leaves the package with
\* one session less and last_session_date = now and every other field as it
\* was; the flush stores that object and changes no other package.
C18_UseSessionEffect ==
    [][(IsUseSession /\ can_use_session(packages[last'.id], now))
          => LET p == packages[last'.id]
                 q == last'.cand[1]
             IN  /\ q.sessions_remaining = p.sessions_remaining - 1
                 /\ q.last_session_date = now
                 /\ q = [p EXCEPT !.sessions_remaining = q.sessions_remaining,
                                  !.last_session_date = q.last_session_date]
                 /\ last'.result = "ok" => packages' = [packages EXCEPT ![last'.id] = q]
                 /\ last'.result # "ok" => packages' = packages]_vars

\* a session of one of two packages was used some days after its last one
C18_Witness ==
    /\ last.op = "use_session" /\ last.result = "ok"
    /\ Len(packages) = 2
    /\ packages[last.id].last_session_date = now
    /\ now > StartOfDay
    /\ packages[last.id].sessions_remaining = packages[last.id].total_sessions - 2

\* C19: a package whose expiry_date has passed cannot be used: its
\* can_use_session is false, no request changes it and it stays stored.
C19_ExpiredUnusable ==
    [][\A i \in DOMAIN packages :
          packages[i].expiry_date < now
              => /\ ~can_use_session(packages[i], now)
                 /\ i \in DOMAIN packages'
                 /\ packages'[i] = packages[i]]_vars

C30_OnlyAuthorizedDelete ==
    [][\A i \in DOMAIN appts \ DOMAIN appts' :
          /\ last'.op = "delete" /\ last'.id = i /\ last'.result = "ok"
          /\ last'.cand[1] = appts[i].creator \/ last'.cand[1] \in Admins]_vars

PackagesOf(a) ==
    {history[k].package_id : k \in {j \in DOMAIN history :
        /\ history[j].package_id # Unset
        /\ history[j].date_of_service = a.start
        /\ history[j].service_type = a.service}}

\* C21: a CANCELLED request on a COMPLETED appointment whose completion used
\* a session of a package succeeds and gives the package one session back,
\* never more than total_sessions.
C21_CancelRestoresSession ==
    [][\A i \in DOMAIN appts :
          (/\ last'.op = "status" /\ last'.id = i
           /\ last'.result # "not_found" /\ last'.result # "forbidden"
           /\ appts[i].status = "COMPLETED" /\ last'.cand[4] = "CANCELLED")
          => \A q \in PackagesOf(appts[i]) :
                /\ last'.result = "ok"
                /\ packages'[q].sessions_remaining
                     = restore_session(packages[q]).sessions_remaining]_vars

\* C22: a step that takes an appointment into COMPLETED adds exactly one
\* ServiceHistory row for that service and credits the client with its
\* loyalty points.
C22_CompletionRecorded ==
    [][\A i \in DOMAIN appts \cap DOMAIN appts' :
          (appts[i].status # "COMPLETED" /\ appts'[i].status = "COMPLETED")
          => /\ Len(history') = Len(history) + 1
             /\ history'[Len(history')].service_type = appts[i].service
             /\ history'[Len(history')].date_of_service = appts[i].start]_vars

\* C23: the loyalty_points of every client are >= 0 and no stored
\* ServiceHistory row carries a negative loyalty_points_earned.
C23_PointsNonNegative ==
    /\ \A c \in DOMAIN clients : clients[c].loyalty_points >= 0
    /\ \A k \in DOMAIN history : history[k].loyalty_points_earned >= 0

\* C24: a ServiceHistory row that redeems more points than the client's
\* balance is refused and changes neither the balance nor the history; one
\* that redeems p points within the balance lowers the balance by p.
C24_RedemptionChecked ==
    [][(last'.op = "history" /\ last'.cand[1].points_redeemed > 0
        /\ last'.cand[1].client_id \in DOMAIN clients)
       => LET t == last'.cand[1]
              c == t.client_id
          IN  IF t.points_redeemed > clients[c].loyalty_points
              THEN last'.result # "ok" /\ UNCHANGED <<clients, history>>
              ELSE last'.result = "ok"
                   => clients'[c].loyalty_points
                        = clients[c].loyalty_points + t.loyalty_points_earned
                          - t.points_redeemed]_vars

\* C25: a stored service of type T adds get_loyalty_points(T) to the
\* client's balance, whatever loyalty_points_earned the row carries.
C25_TablePoints ==
    [][(last'.op = "history" /\ last'.result = "ok")
       => LET t == last'.cand[1]
          IN  clients'[t.client_id].loyalty_points
                = clients[t.client_id].loyalty_points + get_loyalty_points(t.service_type)]_vars

C29_ExpiryFromPurchase ==
    [][last'.op = "purchase"
       => LET t == last'.cand[1]
          IN  last'.result = "expiry" <=> t.expiry_date < t.purchase_date + Days(30)]_vars

\* C31: a status request along an edge of the transition table is never
\* refused by a timing rule of the hook (minimum notice, business hours,
\* weekday), however late it arrives.
C31_StatusNotTimed ==
    [][(/\ last'.op = "status" /\ now' = now
        /\ last'.result \notin {"not_found", "forbidden"}
        /\ <<last'.prev[3], last'.cand[4]>> \in AllowedEdges)
       => last'.result \notin {"hours", "weekend", "notice"}]_vars

\* C32: a use_session request on a package whose can_use_session is true is
\* stored: the purchase rules the flush runs again do not reject it.
C32_UsePersists ==
    [][(/\ IsUseSession
        /\ last'.id \in DOMAIN packages
        /\ can_use_session(packages[last'.id], now))
       => last'.result = "ok"]_vars

C36_CancelFrame ==
    [][last'.op = "status"
       => /\ DOMAIN packages' = DOMAIN packages
          /\ \A q \in DOMAIN packages :
                packages'[q] # packages[q]
                => /\ last'.result = "ok"
                   /\ last'.cand[4] = "CANCELLED" /\ last'.prev[3] # "CANCELLED"
                   /\ q \in PackagesOf(appts[last'.id])
                   /\ packages'[q] = [packages[q] EXCEPT !.sessions_remaining = @ + 1]]_vars

\* a second cancel of an appointment for which a session had been used was
\* stored and the package still lacks that session
C36_Witness ==
    /\ last.op = "status" /\ last.result = "ok"
    /\ last.prev[3] = "CANCELLED" /\ last.cand[4] = "CANCELLED"
    /\ \E q \in PackagesOf(appts[last.id]) :
          packages[q].sessions_remaining = packages[q].total_sessions - 1

\* the request of user u to set status st on the stored appointment a is
\* one the handler must refuse
MustRefuse(u, a, st) ==
    \/ (u # a.creator /\ u \notin a.attendees)
    \/ (st = "CANCELLED" /\ u # a.creator)
    \/ (st = "DECLINED" /\ u \notin a.attendees)

\* C37: update_appointment_status refuses CANCELLED from a user who is not
\* the creator, DECLINED from a user who is not an attendee and any status
\* from a user who is neither; a refused request leaves every appointment
\* as it was.
C37_StatusAuthorization ==
    [][\A u \in Users, i \in DOMAIN appts, st \in AppointmentStatus :
          (MustRefuse(u, appts[i], st) /\ UpdateAppointmentStatus(u, i, st))
          => /\ last'.result \in {"not_found", "forbidden"}
             /\ appts' = appts]_vars

\* a request on an appointment with user 2 as attendee was refused as
\* forbidden and the appointment kept its status
C37_Witness ==
    /\ last.op = "status" /\ last.result = "forbidden"
    /\ last.id \in DOMAIN appts
    /\ appts[last.id].attendees = {2}
    /\ appts[last.id].status = "CONFIRMED"

\* the ServiceHistory rows that record a session of package q
RowsOf(q) == {k \in DOMAIN history : history[k].package_id = q}

\* C33: under concurrent use_session requests sessions_remaining never
\* drops below 0 and a package has no more ServiceHistory rows than
\* sessions deducted from it.
C33_NoLostSession ==
    \A q \in DOMAIN packages :
        /\ packages[q].sessions_remaining >= 0
        /\ Cardinality(RowsOf(q))
             <= packages[q].total_sessions - packages[q].sessions_remaining

RECURSIVE SumCost(_, _), CountRows(_, _)
SumCost(h, c) ==
    IF h = <<>> THEN 0
    ELSE (IF Head(h).client_id = c THEN Head(h).service_cost ELSE 0) + SumCost(Tail(h), c)
CountRows(h, c) ==
    IF h = <<>> THEN 0
    ELSE (IF Head(h).client_id = c THEN 1 ELSE 0) + CountRows(Tail(h), c)

\* C35: whatever the interleaving of concurrent ServiceHistory inserts,
\* the loyalty_points, total_spent and visit_count of every client are the
\* initial values (0) plus the contributions of all committed rows.
C35_NoLostAccrual ==
    \A c \in DOMAIN clients :
        /\ clients[c].loyalty_points = SumEarned(history, c)
        /\ clients[c].total_spent = SumCost(history, c)
        /\ clients[c].visit_count = CountRows(history, c)

\* two rows of one client committed, the second by a transaction that had
\* read the client's row before the first commit
C35_Witness ==
    /\ last.op = "history" /\ last.result = "ok"
    /\ Len(history) = 2
    /\ history[1].client_id = history[2].client_id
    /\ last.cand[1] = history[2]
    /\ last.prev[1].visit_count = 0
    /\ clients[history[2].client_id].visit_count = 2

\* C38: decode_token of a revoked token fails with "Token has been revoked";
\* decode_token of a token that is neither revoked nor expired returns its
\* subject.
C38_RevokedRejected ==
    [][(last'.op = "decode_token" /\ now' = now)
       => LET t == last'.cand[1]
          IN  IF t \in revoked THEN last'.result = "Token has been revoked"
              ELSE t.exp > now => (last'.result = "sub" /\ last'.id = t.sub)]_vars

\* C39: a request of a client that has made more than RATE_LIMIT_PER_MINUTE
\* requests in the current window is refused by check_auth with 429.
C39_RateLimited ==
    [][(last'.op = "check_auth" /\ now' = now)
       => (RateCount(cache, last'.id, now) > RATE_LIMIT_PER_MINUTE
           => last'.result = "429")]_vars

====
